---------------------------- MODULE Spec2Model ----------------------------
(***************************************************************************)
(* Out-of-office redirects: the three request handlers of                  *)
(* packages/trpc/server/routers/loggedInViewer/outOfOffice.handler.ts      *)
(* (outOfOfficeCreate, outOfOfficeEntryDelete, outOfOfficeEntriesList)     *)
(* over the outOfOfficeEntry table.                                        *)
(*                                                                         *)
(* Time is counted in minutes since the epoch (UTC).  A calendar date is   *)
(* the number of its day.  An entry's id, createdAt and updatedAt are set  *)
(* by the insert and read by no handler's condition; they are left out.    *)
(***************************************************************************)
EXTENDS Integers, Sequences, FiniteSets, TLC

(* ------------------------------ bounds -------------------------------- *)

\* uuids ever handed out: 1 .. MaxUuid (the number of inserts of a run).
MaxUuid == 2

\* The instants of the windows put under the queries' time predicates:
\* 0 .. MaxInstant.
MaxInstant == 3

\* The days, in the server's zone, that a request's dates may fall on.
Days == {0, 1}

\* The server clock is read at the end of these local days.
ClockDays == {0, 1}

\* utcOffset() of the server, in minutes, fixed for a run.
Offsets == {-30, 0}

(* ----------------------------- constants ------------------------------ *)

\* dayjs: the length of a "day" in minutes.
MinutesPerDay == 1440

\* A falsy input.startDate / input.endDate.
NoDate == -1

\* A falsy toTeamUserId, and the undefined toUserId.
NoUser == 0

\* A falsy input.outOfOfficeUid.
NoUid == 0

\* The rows of the user table, and those whose email is set.
Users == {1, 2}
UsersWithEmail == {1}

\* The ids a request may name as toTeamUserId: absent, a user, no user's id.
UserIdInputs == {NoUser} \cup Users \cup {3}

\* Whether sendBookingRedirectNotification throws; it is only called for a
\* delegate whose email is set.
NotifierOutcomes(toTeamUserId) ==
    IF toTeamUserId \in UsersWithEmail THEN BOOLEAN ELSE {FALSE}

DateInputs == {NoDate} \cup Days

\* The startDate and endDate of a request: two dates, or one of them missing.
DateRangeInputs ==
    (Days \X Days) \cup {<<NoDate, 0>>, <<0, NoDate>>}

UidInputs == {NoUid} \cup (1 .. MaxUuid)

\* The requests that may be in progress together.
Slots == {1, 2}

VARIABLES
    store,      \* the outOfOfficeEntry table: a set of rows
    nextUuid,   \* the next uuid uuidv4() hands out
    now,        \* the current instant: dayjs(), new Date()
    offset,     \* the server's UTC offset in minutes
    last,       \* the most recent request's reply
    calls,      \* the requests in progress, when requests interleave
    probe       \* two windows and what the queries' predicates say of them

vars == <<store, nextUuid, now, offset, last, calls, probe>>

(* --------------------------- dayjs arithmetic ------------------------- *)

Abs(x) == IF x < 0 THEN -x ELSE x

\* dayjs(input.startDate), dayjs(input.endDate): an instant of the named day
\* of the server's zone.  Only .startOf("day") and .endOf("day") of it are
\* read, and they depend on the day alone; the instant is its midnight.
dayjs(date) == date * MinutesPerDay - offset

\* .startOf("day"): back to the local midnight.
startOfDay(t) == ((t + offset) \div MinutesPerDay) * MinutesPerDay - offset

\* endOfDay with the end date left at its midnight.
endOfDayAtMidnight(t) == startOfDay(t)

\* .endOf("day"): the last instant of the local day (23:59:59.999).
endOfDay(t) == startOfDay(t) + MinutesPerDay - 1

\* isAfter with its two sides exchanged.
isAfterExchanged(a, b) == b > a

isAfter(a, b) == a > b

isBefore(a, b) == a < b

\* dayjs().startOf("day").subtract(Math.abs(offset) * 60, "minute")
PastLimit == startOfDay(now) - Abs(offset) * 60

(* ------------------------------ queries ------------------------------- *)

\* SelfOverlapWhere without its first clause.
SelfOverlapContainedOnly(e, userId, inputStartTime, inputEndTime) ==
    /\ e.userId = userId
    /\ \/ e.start > inputStartTime /\ e.start < inputEndTime
       \/ e.end > inputStartTime /\ e.end < inputEndTime

\* where of the first findFirst of outOfOfficeCreate.
SelfOverlapWhere(e, userId, inputStartTime, inputEndTime) ==
    /\ e.userId = userId
    /\ \/ e.start < inputEndTime /\ e.end > inputStartTime
       \/ e.start > inputStartTime /\ e.start < inputEndTime
       \/ e.end > inputStartTime /\ e.end < inputEndTime

\* CycleWhere with its "inside of range" clause alone.
CycleWhereInsideOnly(e, toUserId, userId, inputStartTime, inputEndTime) ==
    /\ toUserId = NoUser \/ e.userId = toUserId
    /\ e.toUserId = userId
    /\ e.start >= inputStartTime /\ e.end <= inputEndTime

\* CycleWhere without the time range.
CycleWhereAnyTime(e, toUserId, userId, inputStartTime, inputEndTime) ==
    /\ toUserId = NoUser \/ e.userId = toUserId
    /\ e.toUserId = userId

\* where of the second findFirst of outOfOfficeCreate.  A filter whose value
\* is undefined is left out of the query: with no delegate, userId is not
\* constrained.
CycleWhere(e, toUserId, userId, inputStartTime, inputEndTime) ==
    /\ toUserId = NoUser \/ e.userId = toUserId
    /\ e.toUserId = userId
    /\ \/ e.start <= inputEndTime /\ e.end >= inputStartTime
       \/ e.start >= inputStartTime /\ e.end <= inputEndTime

\* DeleteWhere without the owner.
DeleteWhereAnyOwner(e, uid, userId) == e.uuid = uid

\* where of the findFirst of outOfOfficeEntryDelete.
DeleteWhere(e, uid, userId) == e.uuid = uid /\ e.userId = userId

\* ListWhere with gt for gte.
ListWhereStrict(e, userId) == e.userId = userId /\ e.end > now

\* where of the findMany of outOfOfficeEntriesList.
ListWhere(e, userId) == e.userId = userId /\ e.end >= now

\* orderBy start desc: every order of the rows that has no row before one of
\* a later start.
OrderedByStartDesc(rows) ==
    { s \in [1 .. Cardinality(rows) -> rows] :
        \A i, j \in DOMAIN s : i < j => s[i] # s[j] /\ s[i].start >= s[j].start }

(* ------------------------------ replies ------------------------------- *)

Reply(op, user, code, message, uuid, entries) ==
    [op |-> op, user |-> user, code |-> code, message |-> message,
     uuid |-> uuid, entries |-> entries]

\* What a handler leaves behind: the table, the uuids used, the reply.
Result(table, uuids, reply) == [store |-> table, nextUuid |-> uuids, reply |-> reply]

\* throw new TRPCError: the request ends, the table is as it was.
Throw(prisma, op, user, code, message, uuid) ==
    Result(prisma, nextUuid, Reply(op, user, code, message, uuid, <<>>))

(* ------------------------------ handlers ------------------------------ *)
(* A handler is the function from the table it finds (prisma) and its     *)
(* input to the table it leaves and its reply.                            *)

\* createdRedirect with the end date stored as it came in.
createdRedirectEndAsGiven(uuid, userId, startDate, endDate, toUserId) ==
    [uuid |-> uuid,
     start |-> startOfDay(dayjs(startDate)),
     end |-> dayjs(endDate),
     userId |-> userId,
     toUserId |-> toUserId]

\* data of prisma.outOfOfficeEntry.create: the dates are normalized again
\* from the input.
createdRedirect(uuid, userId, startDate, endDate, toUserId) ==
    [uuid |-> uuid,
     start |-> startOfDay(dayjs(startDate)),
     end |-> endOfDay(dayjs(endDate)),
     userId |-> userId,
     toUserId |-> toUserId]

\* afterInsert with the insert undone when the notification fails.
afterInsertRolledBack(prisma, row, notifierThrows) ==
    IF row.toUserId # NoUser /\ row.toUserId \in UsersWithEmail /\ notifierThrows
    THEN Result(prisma, nextUuid + 1,
                Reply("create", row.userId, "INTERNAL_SERVER_ERROR",
                      "sendBookingRedirectNotification", row.uuid, <<>>))
    ELSE Result(prisma \cup {row}, nextUuid + 1,
                Reply("create", row.userId, "OK", "", row.uuid, <<>>))

\* The rest of outOfOfficeCreate once the row is inserted: the delegate with
\* an email is notified, then {} is returned.  When
\* sendBookingRedirectNotification throws, nothing catches it and nothing
\* undoes the insert.
afterInsert(prisma, row, notifierThrows) ==
    IF row.toUserId # NoUser /\ row.toUserId \in UsersWithEmail /\ notifierThrows
    THEN Result(prisma \cup {row}, nextUuid + 1,
                Reply("create", row.userId, "INTERNAL_SERVER_ERROR",
                      "sendBookingRedirectNotification", row.uuid, <<>>))
    ELSE Result(prisma \cup {row}, nextUuid + 1,
                Reply("create", row.userId, "OK", "", row.uuid, <<>>))

outOfOfficeCreate(prisma, userId, startDate, endDate, toTeamUserId, notifierThrows) ==
    LET inputStartTime == startOfDay(dayjs(startDate))
        inputEndTime == endOfDay(dayjs(endDate))
        toUserId == IF toTeamUserId # NoUser THEN toTeamUserId ELSE NoUser
    IN
    IF startDate = NoDate \/ endDate = NoDate
    THEN Throw(prisma, "create", userId, "BAD_REQUEST", "start_date_and_end_date_required", NoUid)
    ELSE IF isAfter(inputStartTime, inputEndTime)
    THEN Throw(prisma, "create", userId, "BAD_REQUEST", "start_date_must_be_before_end_date", NoUid)
    ELSE IF isBefore(inputStartTime, PastLimit)
    THEN Throw(prisma, "create", userId, "BAD_REQUEST", "start_date_must_be_in_the_future", NoUid)
    ELSE IF toTeamUserId # NoUser /\ toTeamUserId \notin Users
    THEN Throw(prisma, "create", userId, "NOT_FOUND", "user_not_found", NoUid)
    ELSE IF \E e \in prisma : SelfOverlapWhere(e, userId, inputStartTime, inputEndTime)
    THEN Throw(prisma, "create", userId, "CONFLICT", "out_of_office_entry_already_exists", NoUid)
    ELSE IF \E e \in prisma : CycleWhere(e, toUserId, userId, inputStartTime, inputEndTime)
    THEN Throw(prisma, "create", userId, "BAD_REQUEST", "booking_redirect_infinite_not_allowed", NoUid)
    ELSE afterInsert(prisma,
                     createdRedirect(nextUuid, userId, startDate, endDate, toUserId),
                     notifierThrows)

\* prismaDelete taking every row of the owner of the row named.
prismaDeleteOfOwner(prisma, uid) ==
    {e \in prisma : \A d \in prisma : d.uuid = uid => e.userId # d.userId}

\* prisma.outOfOfficeEntry.delete({ where: { uuid } })
prismaDelete(prisma, uid) == {e \in prisma : e.uuid # uid}

outOfOfficeEntryDelete(prisma, userId, outOfOfficeUid) ==
    IF outOfOfficeUid = NoUid
    THEN Throw(prisma, "delete", userId, "BAD_REQUEST", "out_of_office_id_required", outOfOfficeUid)
    ELSE IF ~ \E e \in prisma : DeleteWhere(e, outOfOfficeUid, userId)
    THEN Throw(prisma, "delete", userId, "NOT_FOUND", "booking_redirect_not_found", outOfOfficeUid)
    ELSE Result(prismaDelete(prisma, outOfOfficeUid), nextUuid,
                Reply("delete", userId, "OK", "", outOfOfficeUid, <<>>))

\* The lists findMany may return: one, unless two rows start together.
outOfOfficeEntriesList(prisma, userId) ==
    OrderedByStartDesc({e \in prisma : ListWhere(e, userId)})

(* ------------------------------ requests ------------------------------ *)
(* Each request runs to completion before the next begins.                *)

Create ==
    \E userId \in Users, dates \in DateRangeInputs, toTeamUserId \in UserIdInputs :
        \E notifierThrows \in NotifierOutcomes(toTeamUserId) :
            \E r \in {outOfOfficeCreate(store, userId, dates[1], dates[2],
                                         toTeamUserId, notifierThrows)} :
                /\ r.nextUuid <= MaxUuid + 1
                /\ store' = r.store
                /\ nextUuid' = r.nextUuid
                /\ last' = r.reply
                /\ UNCHANGED <<now, offset, calls, probe>>

Delete ==
    \E userId \in Users, outOfOfficeUid \in UidInputs :
        \E r \in {outOfOfficeEntryDelete(store, userId, outOfOfficeUid)} :
            /\ store' = r.store
            /\ last' = r.reply
            /\ UNCHANGED <<nextUuid, now, offset, calls, probe>>

List ==
    \E userId \in Users :
        \E outOfOfficeEntries \in outOfOfficeEntriesList(store, userId) :
            /\ last' = Reply("list", userId, "OK", "", NoUid, outOfOfficeEntries)
            /\ UNCHANGED <<store, nextUuid, now, offset, calls, probe>>

(* ------------------------------ the clock ----------------------------- *)

ClockValues == { endOfDay(dayjs(d)) : d \in ClockDays }

\* Time passes between two requests: the clock is next read at the end of
\* the following local day.
Tick ==
    /\ \E t \in ClockValues :
          /\ t > now
          /\ \A t2 \in ClockValues : t2 > now => t <= t2
          /\ now' = t
    /\ UNCHANGED <<store, nextUuid, offset, last, calls, probe>>

(* --------------------------- specification ---------------------------- *)

\* No request in progress.
Idle ==
    [pc |-> "idle", userId |-> NoUser, startDate |-> NoDate, endDate |-> NoDate,
     toUserId |-> NoUser, uid |-> NoUid]

\* No windows under the predicates.
NoProbe ==
    [applied |-> FALSE, normalized |-> FALSE, existing |-> <<0, 0>>,
     window |-> <<0, 0>>, selfOverlap |-> FALSE, cycle |-> FALSE]

Init ==
    /\ store = {}
    /\ nextUuid = 1
    /\ offset \in Offsets
    /\ now = endOfDay(dayjs(0))
    /\ last = Reply("none", NoUser, "OK", "", NoUid, <<>>)
    /\ calls = [p \in Slots |-> Idle]
    /\ probe = NoProbe

Next == Create \/ Delete \/ List \/ Tick

Spec == Init /\ [][Next]_vars

(* ------------------------- interleaved requests ----------------------- *)
(* Requests in progress together.  A handler gives way at each await; a    *)
(* step is the code from one await to the next, with the query or the      *)
(* write it awaits.  The user table does not change, so the delegate's     *)
(* findUnique is taken with the validation; the lookups before the         *)
(* notification are taken with the notification.  A reply goes to its      *)
(* caller and no other request reads it: a request that throws or returns  *)
(* is no longer in progress, and its reply is not kept.  The clock, read   *)
(* once before a create's first await, may move between any two steps.     *)

\* The creates that have not inserted yet.
CreatesInProgress ==
    Cardinality({q \in Slots : calls[q].pc \in {"findOverlap", "findCycle", "insert"}})

\* outOfOfficeCreate up to its first query of the table; the request goes on
\* unless one of the four checks throws.
CreateBegin(p) ==
    /\ calls[p].pc = "idle"
    /\ nextUuid + CreatesInProgress <= MaxUuid
    /\ \E userId \in Users, dates \in DateRangeInputs, toTeamUserId \in UserIdInputs :
          IF \/ dates[1] = NoDate \/ dates[2] = NoDate
             \/ isAfter(startOfDay(dayjs(dates[1])), endOfDay(dayjs(dates[2])))
             \/ isBefore(startOfDay(dayjs(dates[1])), PastLimit)
             \/ toTeamUserId # NoUser /\ toTeamUserId \notin Users
          THEN UNCHANGED calls
          ELSE calls' = [calls EXCEPT ![p] =
                            [pc |-> "findOverlap", userId |-> userId,
                             startDate |-> dates[1], endDate |-> dates[2],
                             toUserId |-> toTeamUserId, uid |-> NoUid]]
    /\ UNCHANGED <<store, nextUuid, now, offset, last, probe>>

\* The first findFirst: an overlapping entry of the caller throws CONFLICT.
CreateFindOverlap(p) ==
    /\ calls[p].pc = "findOverlap"
    /\ IF \E e \in store : SelfOverlapWhere(e, calls[p].userId,
                                             startOfDay(dayjs(calls[p].startDate)),
                                             endOfDay(dayjs(calls[p].endDate)))
       THEN calls' = [calls EXCEPT ![p] = Idle]
       ELSE calls' = [calls EXCEPT ![p].pc = "findCycle"]
    /\ UNCHANGED <<store, nextUuid, now, offset, last, probe>>

\* The second findFirst: an entry redirecting back to the caller throws
\* BAD_REQUEST.
CreateFindCycle(p) ==
    /\ calls[p].pc = "findCycle"
    /\ IF \E e \in store : CycleWhere(e, calls[p].toUserId, calls[p].userId,
                                       startOfDay(dayjs(calls[p].startDate)),
                                       endOfDay(dayjs(calls[p].endDate)))
       THEN calls' = [calls EXCEPT ![p] = Idle]
       ELSE calls' = [calls EXCEPT ![p].pc = "insert"]
    /\ UNCHANGED <<store, nextUuid, now, offset, last, probe>>

\* prisma.outOfOfficeEntry.create; with no delegate the handler returns.
CreateInsert(p) ==
    /\ calls[p].pc = "insert"
    /\ store' = store \cup {createdRedirect(nextUuid, calls[p].userId, calls[p].startDate,
                                             calls[p].endDate, calls[p].toUserId)}
    /\ nextUuid' = nextUuid + 1
    /\ IF calls[p].toUserId # NoUser
       THEN calls' = [calls EXCEPT ![p].pc = "notify", ![p].uid = nextUuid]
       ELSE calls' = [calls EXCEPT ![p] = Idle]
    /\ UNCHANGED <<now, offset, last, probe>>

\* The notification of the delegate; the handler returns or, when the
\* notifier throws, fails.  The table is not touched either way.
CreateNotify(p) ==
    /\ calls[p].pc = "notify"
    /\ calls' = [calls EXCEPT ![p] = Idle]
    /\ UNCHANGED <<store, nextUuid, now, offset, last, probe>>

\* outOfOfficeEntryDelete up to the answer of its findFirst: it throws
\* BAD_REQUEST for no uid and NOT_FOUND for no such entry of the caller.
DeleteBegin(p) ==
    /\ calls[p].pc = "idle"
    /\ \E userId \in Users, outOfOfficeUid \in UidInputs :
          IF \/ outOfOfficeUid = NoUid
             \/ ~ \E e \in store : DeleteWhere(e, outOfOfficeUid, userId)
          THEN UNCHANGED calls
          ELSE calls' = [calls EXCEPT ![p] =
                            [Idle EXCEPT !.pc = "delete", !.userId = userId,
                                         !.uid = outOfOfficeUid]]
    /\ UNCHANGED <<store, nextUuid, now, offset, last, probe>>

\* prisma.outOfOfficeEntry.delete by uuid; it throws when the row is gone.
DeleteRemove(p) ==
    /\ calls[p].pc = "delete"
    /\ store' = prismaDelete(store, calls[p].uid)
    /\ calls' = [calls EXCEPT ![p] = Idle]
    /\ UNCHANGED <<nextUuid, now, offset, last, probe>>

NextInterleaved ==
    \/ \E p \in Slots :
          \/ CreateBegin(p)
          \/ CreateFindOverlap(p)
          \/ CreateFindCycle(p)
          \/ CreateInsert(p)
          \/ CreateNotify(p)
          \/ DeleteBegin(p)
          \/ DeleteRemove(p)
    \/ Tick

SpecInterleaved == Init /\ [][NextInterleaved]_vars

(* ----------------------- the queries' predicates --------------------- *)
(* The where clauses of the two findFirst of outOfOfficeCreate as          *)
(* functions of one stored row and one input window.                       *)

Instants == 0 .. MaxInstant

\* The days of the day-normalized windows.
ProbeDays == {0, 1, 2}

\* Any window that starts before it ends.
Windows == { w \in Instants \X Instants : w[1] < w[2] }

\* startOf("day") of one day to endOf("day") of the same or a later day.
DayWindows ==
    { <<startOfDay(dayjs(d[1])), endOfDay(dayjs(d[2]))>> :
        d \in { dd \in ProbeDays \X ProbeDays : dd[1] <= dd[2] } }

\* A stored row and an input window, both of whole days or both of any
\* instants, not yet under the predicates.
ProbeInputs ==
    { [NoProbe EXCEPT !.normalized = n, !.existing = w[1], !.window = w[2]] :
        n \in {FALSE}, w \in Windows \X Windows }
    \cup
    { [NoProbe EXCEPT !.normalized = n, !.existing = w[1], !.window = w[2]] :
        n \in {TRUE}, w \in DayWindows \X DayWindows }

\* The stored row: an entry of user 1 redirecting to user 2.
ProbeEntry ==
    [uuid |-> 1, start |-> probe.existing[1], end |-> probe.existing[2],
     userId |-> 1, toUserId |-> 2]

\* The row under the where of the overlap query of a create by user 1, and
\* under the where of the cycle query of a create by user 2 naming user 1.
ApplyWhere ==
    /\ ~probe.applied
    /\ probe' = [probe EXCEPT
                    !.applied = TRUE,
                    !.selfOverlap = SelfOverlapWhere(ProbeEntry, 1,
                                                     probe.window[1], probe.window[2]),
                    !.cycle = CycleWhere(ProbeEntry, 1, 2,
                                         probe.window[1], probe.window[2])]
    /\ UNCHANGED <<store, nextUuid, now, offset, last, calls>>

InitWhere ==
    /\ store = {}
    /\ nextUuid = 1
    /\ offset \in Offsets
    /\ now = endOfDay(dayjs(0))
    /\ last = Reply("none", NoUser, "OK", "", NoUid, <<>>)
    /\ calls = [p \in Slots |-> Idle]
    /\ probe \in ProbeInputs

NextWhere == ApplyWhere

SpecWhere == InitWhere /\ [][NextWhere]_vars

(* ------------------------- the claims' vocabulary --------------------- *)

\* Two windows overlap: each starts before the other ends.
Overlap(s1, e1, s2, e2) == s1 < e2 /\ s2 < e1

\* The normalized window of a request.
NormStart(startDate) == startOfDay(dayjs(startDate))
NormEnd(endDate) == endOfDay(dayjs(endDate))

\* Both dates given and startDate not a later calendar date than endDate.
ValidDates(startDate, endDate) ==
    startDate # NoDate /\ endDate # NoDate /\ startDate <= endDate

\* Not in the past: not before start-of-today less |UTC offset|.
NotPast(startDate) == NormStart(startDate) >= startOfDay(now) - Abs(offset)

\* The delegate is absent or a row of the user table.
DelegateOk(toTeamUserId) == toTeamUserId = NoUser \/ toTeamUserId \in Users

\* An entry of userId overlaps the request's window.
OwnOverlap(userId, startDate, endDate) ==
    \E e \in store :
        e.userId = userId /\ Overlap(e.start, e.end, NormStart(startDate), NormEnd(endDate))

\* The rows of a list.
Rows(entries) == { entries[i] : i \in DOMAIN entries }

(* -------------------------------- C1 ---------------------------------- *)

\* C1: no two distinct persisted entries of one userId have overlapping
\* windows, in every state reached by whole create and delete requests.
C1_NoSelfOverlap ==
    \A e1, e2 \in store :
        (e1 # e2 /\ e1.userId = e2.userId) => ~Overlap(e1.start, e1.end, e2.start, e2.end)

\* Two entries of one user are persisted.
C1_Witness ==
    \E e1, e2 \in store : e1 # e2 /\ e1.userId = e2.userId

(* -------------------------------- C2 ---------------------------------- *)

\* C2: no two distinct users hold entries that redirect to each other in
\* overlapping windows, in every state reached by whole requests.
C2_NoMutualRedirect ==
    \A e1, e2 \in store :
        ( /\ e1.userId # e2.userId
          /\ e1.toUserId = e2.userId
          /\ e2.toUserId = e1.userId )
        => ~Overlap(e1.start, e1.end, e2.start, e2.end)

\* Two users redirect to each other, in windows that keep apart.
C2_Witness ==
    \E e1, e2 \in store :
        e1.userId # e2.userId /\ e1.toUserId = e2.userId /\ e2.toUserId = e1.userId

(* -------------------------------- C3 ---------------------------------- *)

\* C3: a create with valid, non-past dates and an existing or absent
\* delegate, whose window overlaps an entry the caller owns, replies
\* CONFLICT.
C3_OwnOverlapConflict ==
    \A userId \in Users, startDate \in Days, endDate \in Days :
        ( /\ ValidDates(startDate, endDate)
          /\ NotPast(startDate)
          /\ OwnOverlap(userId, startDate, endDate) )
        => \A toTeamUserId \in {t \in UserIdInputs : DelegateOk(t)},
              notifierThrows \in BOOLEAN :
               \A r \in {outOfOfficeCreate(store, userId, startDate, endDate,
                                           toTeamUserId, notifierThrows)} :
                   r.reply.code = "CONFLICT" /\ r.store = store

\* A create was answered CONFLICT while no date a request may name is in
\* the past: the request had valid non-past dates, a delegate absent or
\* existing, and a window that an entry of the caller overlaps.
C3_Witness ==
    /\ last.op = "create" /\ last.code = "CONFLICT"
    /\ \A d \in Days : NotPast(d)
    /\ \E e \in store : e.userId = last.user

(* -------------------------------- C4 ---------------------------------- *)

\* The entries of user a that redirect to user b.
Redirects(a, b) == { w \in store : w.userId = a /\ w.toUserId = b }

C5_ValidCreateSucceeds ==
    \A userId \in Users, startDate \in Days, endDate \in Days,
       toTeamUserId \in UserIdInputs :
        ( /\ ValidDates(startDate, endDate)
          /\ NotPast(startDate)
          /\ DelegateOk(toTeamUserId)
          /\ toTeamUserId # NoUser =>
                ~ \E w \in Redirects(toTeamUserId, userId) :
                      Overlap(w.start, w.end, NormStart(startDate), NormEnd(endDate))
          /\ ~OwnOverlap(userId, startDate, endDate) )
        => \A r \in {outOfOfficeCreate(store, userId, startDate, endDate,
                                       toTeamUserId, FALSE)} :
               /\ r.reply.code = "OK"
               /\ \A entries \in outOfOfficeEntriesList(r.store, userId) :
                     \E e \in Rows(entries) :
                         /\ e.uuid = r.reply.uuid
                         /\ e.start = NormStart(startDate)
                         /\ e.end = NormEnd(endDate)

(* -------------------------------- C6 ---------------------------------- *)

\* C6: a delete by user U of the uuid of an entry another user V owns replies
\* NOT_FOUND and leaves the table as it was, and V's list afterwards still
\* holds that entry while its end is not before the current instant.
C6_DeleteNotOwned ==
    \A userId \in Users, outOfOfficeUid \in UidInputs :
        \A e \in store :
            (e.uuid = outOfOfficeUid /\ e.userId # userId)
            => \A r \in {outOfOfficeEntryDelete(store, userId, outOfOfficeUid)} :
                   /\ r.reply.code = "NOT_FOUND"
                   /\ r.store = store
                   /\ e.end >= now =>
                         \A entries \in outOfOfficeEntriesList(r.store, e.userId) :
                             e \in Rows(entries)

\* A delete was answered NOT_FOUND for the uuid of an entry that another
\* user owns and that is still current.
C6_Witness ==
    /\ last.op = "delete" /\ last.code = "NOT_FOUND"
    /\ \E e \in store : e.uuid = last.uuid /\ e.userId # last.user /\ e.end >= now

(* -------------------------------- C7 ---------------------------------- *)

\* C7: a list by user U returns exactly the persisted entries with userId U
\* and end at or after the current instant, each once, by start descending.
C7_ListExact ==
    \A userId \in Users :
        \A lists \in {outOfOfficeEntriesList(store, userId)} :
            /\ lists # {}
            /\ \A entries \in lists :
                  /\ \A e \in store :
                        (e.userId = userId /\ ~(e.end < now)) <=> e \in Rows(entries)
                  /\ \A i, j \in DOMAIN entries :
                        i < j => /\ entries[i] # entries[j]
                                 /\ entries[i].start >= entries[j].start

\* A list was answered with an entry that ends at this very instant, while
\* an entry of the caller that ended before is left out.
C7_Witness ==
    /\ last.op = "list"
    /\ \E e \in Rows(last.entries) : e \in store /\ e.end = now
    /\ \E e \in store : e.userId = last.user /\ e.end < now /\ e \notin Rows(last.entries)

(* -------------------------------- C8 ---------------------------------- *)

\* C8: every persisted entry starts strictly before it ends.
C8_StartBeforeEnd == \A e \in store : e.start < e.end

\* An entry of a single day is persisted.
C8_Witness == \E e \in store : e.end - e.start < MinutesPerDay

(* -------------------------------- C9 ---------------------------------- *)

\* C9: a create whose startDate is a later calendar date than its endDate
\* replies BAD_REQUEST and inserts nothing, whatever the table and the
\* delegate.
C9_StartAfterEndRejected ==
    \A userId \in Users, startDate \in Days, endDate \in Days,
       toTeamUserId \in UserIdInputs, notifierThrows \in BOOLEAN :
        startDate > endDate
        => \A r \in {outOfOfficeCreate(store, userId, startDate, endDate,
                                       toTeamUserId, notifierThrows)} :
               r.reply.code = "BAD_REQUEST" /\ r.store = store

\* A create was answered that its start date must be before its end date,
\* with entries persisted.
C9_Witness ==
    /\ last.op = "create" /\ last.code = "BAD_REQUEST"
    /\ last.message = "start_date_must_be_before_end_date"
    /\ store # {}

(* -------------------------------- C10 --------------------------------- *)

\* C10: a create whose normalized start is before start-of-today less the
\* absolute value of the UTC offset replies BAD_REQUEST, for every offset.
C10_PastStartRejected ==
    \A userId \in Users, startDate \in Days, endDate \in Days,
       toTeamUserId \in UserIdInputs, notifierThrows \in BOOLEAN :
        NormStart(startDate) < startOfDay(now) - Abs(offset)
        => outOfOfficeCreate(store, userId, startDate, endDate,
                             toTeamUserId, notifierThrows).reply.code = "BAD_REQUEST"

(* -------------------------------- C11 --------------------------------- *)

\* C11: a create or a delete that ends with an error returned to the caller
\* leaves the set of persisted entries as it was before the request.
C11_ErrorLeavesStore ==
    /\ \A userId \in Users, dates \in DateRangeInputs, toTeamUserId \in UserIdInputs :
           \A notifierThrows \in NotifierOutcomes(toTeamUserId) :
               \A r \in {outOfOfficeCreate(store, userId, dates[1], dates[2],
                                            toTeamUserId, notifierThrows)} :
                   r.reply.code # "OK" => r.store = store
    /\ \A userId \in Users, outOfOfficeUid \in UidInputs :
           \A r \in {outOfOfficeEntryDelete(store, userId, outOfOfficeUid)} :
               r.reply.code # "OK" => r.store = store

(* -------------------------------- C12 --------------------------------- *)

\* C12: a create that passes every check, names a delegate with an email and
\* whose notification then fails is answered with an error, and the entry it
\* inserted stays in the table: the owner's next list has it (unless its end
\* is already past).
C12_NotifierFailureKeepsEntry ==
    \A userId \in Users, startDate \in Days, endDate \in Days,
       toTeamUserId \in UsersWithEmail :
        outOfOfficeCreate(store, userId, startDate, endDate,
                          toTeamUserId, FALSE).reply.code = "OK"
        => \A r \in {outOfOfficeCreate(store, userId, startDate, endDate,
                                        toTeamUserId, TRUE)} :
               /\ r.reply.code # "OK"
               /\ \E e \in r.store \ store :
                      /\ e.uuid = r.reply.uuid
                      /\ e.userId = userId
                      /\ e.toUserId = toTeamUserId
                      /\ e.start = NormStart(startDate)
                      /\ e.end = NormEnd(endDate)
                      /\ e.end >= now
                         => \A entries \in outOfOfficeEntriesList(r.store, userId) :
                                e \in Rows(entries)
               /\ store \subseteq r.store

\* A create has just been answered with the notifier's error, and the entry
\* it inserted is in the table and not yet past.
C12_Witness ==
    /\ last.op = "create"
    /\ last.code = "INTERNAL_SERVER_ERROR"
    /\ \E e \in store :
          /\ e.uuid = last.uuid
          /\ e.userId = last.user
          /\ e.toUserId \in UsersWithEmail
          /\ e.end >= now

(* -------------------------------- C13 --------------------------------- *)

\* C13: round trip.  After a create by a user has succeeded, a list by that
\* user at an instant not after the entry's end returns an entry whose start
\* is start-of-day(startDate) and whose end is end-of-day(endDate); and as
\* long as an entry is in the table and its end is not past, its owner's
\* list returns it with the start and the end of whole days.
C13_RoundTrip ==
    /\ \A userId \in Users, startDate \in Days, endDate \in Days,
          toTeamUserId \in UserIdInputs :
           \A r \in {outOfOfficeCreate(store, userId, startDate, endDate,
                                        toTeamUserId, FALSE)} :
               (r.reply.code = "OK" /\ NormEnd(endDate) >= now)
               => \A entries \in outOfOfficeEntriesList(r.store, userId) :
                      \E e \in Rows(entries) :
                          /\ e.uuid = r.reply.uuid
                          /\ e.start = NormStart(startDate)
                          /\ e.end = NormEnd(endDate)
    /\ \A e \in store :
           e.end >= now
           => /\ \E startDate \in Days, endDate \in Days :
                     e.start = NormStart(startDate) /\ e.end = NormEnd(endDate)
              /\ \A entries \in outOfOfficeEntriesList(store, e.userId) :
                     e \in Rows(entries)

\* A list has just returned an entry spanning both days, created earlier,
\* at the last instant of its window and under a zone that is not UTC.
C13_Witness ==
    /\ last.op = "list"
    /\ offset # 0
    /\ \E e \in Rows(last.entries) :
          /\ e \in store
          /\ e.start = NormStart(0)
          /\ e.end = NormEnd(1)
          /\ e.end = now

(* -------------------------------- C17 --------------------------------- *)

\* C17: the uuids of the persisted entries are pairwise distinct, and a
\* delete answered OK removes exactly the one entry of that uuid, owned by
\* the caller, and leaves every other entry as it was.
C17_DeleteRemovesOne ==
    /\ \A e1, e2 \in store : e1.uuid = e2.uuid => e1 = e2
    /\ \A userId \in Users, outOfOfficeUid \in UidInputs :
           \A r \in {outOfOfficeEntryDelete(store, userId, outOfOfficeUid)} :
               r.reply.code = "OK"
               => \E e \in store :
                      /\ e.uuid = outOfOfficeUid
                      /\ e.userId = userId
                      /\ r.store = store \ {e}

\* A delete has just been answered OK and another entry of the caller is
\* still in the table.
C17_Witness ==
    /\ last.op = "delete"
    /\ last.code = "OK"
    /\ \A e \in store : e.uuid # last.uuid
    /\ \E e \in store : e.userId = last.user

(* -------------------------------- C18 --------------------------------- *)

\* The delegate's entries redirecting to userId in a window that meets the
\* request's (closed bounds).
MutualRedirect(userId, startDate, endDate, toTeamUserId) ==
    \E w \in Redirects(toTeamUserId, userId) :
        w.start <= NormEnd(endDate) /\ NormStart(startDate) <= w.end

\* The reply of the first failing check of a create, the past start being
\* told by pastStart; any reply when no check fails.
FirstFailingCheck(reply, userId, startDate, endDate, toTeamUserId, pastStart) ==
    IF startDate = NoDate \/ endDate = NoDate
    THEN reply.code = "BAD_REQUEST" /\ reply.message = "start_date_and_end_date_required"
    ELSE IF startDate > endDate
    THEN reply.code = "BAD_REQUEST" /\ reply.message = "start_date_must_be_before_end_date"
    ELSE IF pastStart
    THEN reply.code = "BAD_REQUEST" /\ reply.message = "start_date_must_be_in_the_future"
    ELSE IF ~DelegateOk(toTeamUserId)
    THEN reply.code = "NOT_FOUND"
    ELSE IF OwnOverlap(userId, startDate, endDate)
    THEN reply.code = "CONFLICT"
    ELSE IF toTeamUserId # NoUser /\ MutualRedirect(userId, startDate, endDate, toTeamUserId)
    THEN reply.code = "BAD_REQUEST" /\ reply.message = "booking_redirect_infinite_not_allowed"
    ELSE TRUE

\* C18: a create reports the first failing check in the order missing dates,
\* start after end, past start (before start-of-today less |UTC offset|),
\* unknown delegate, own overlapping entry, mutual redirect.
C18_FirstFailingCheck ==
    \A userId \in Users, dates \in DateRangeInputs, toTeamUserId \in UserIdInputs :
        \A r \in {outOfOfficeCreate(store, userId, dates[1], dates[2],
                                     toTeamUserId, FALSE)} :
            FirstFailingCheck(r.reply, userId, dates[1], dates[2], toTeamUserId,
                              ~NotPast(dates[1]))

\* C18, the past start read as the handler computes it (start before
\* start-of-today less 60 times |UTC offset|): the order of the checks.
C18_OrderAsComputed ==
    \A userId \in Users, dates \in DateRangeInputs, toTeamUserId \in UserIdInputs :
        \A r \in {outOfOfficeCreate(store, userId, dates[1], dates[2],
                                     toTeamUserId, FALSE)} :
            FirstFailingCheck(r.reply, userId, dates[1], dates[2], toTeamUserId,
                              isBefore(NormStart(dates[1]), PastLimit))

(* -------------------------------- C19 --------------------------------- *)

\* C19: no persisted entry redirects to its own owner.
C19_NoSelfRedirect ==
    \A e \in store : e.toUserId # NoUser => e.toUserId # e.userId

(* -------------------------------- C14 --------------------------------- *)

\* The window of the create in progress in slot p.
CallStart(p) == NormStart(calls[p].startDate)
CallEnd(p) == NormEnd(calls[p].endDate)

\* C14: with the overlap check and the insert as separate steps, a create
\* passes the check only while no entry of its caller overlaps its window,
\* and its insert then adds its entry whatever has been inserted since; two
\* overlapping entries of one user are reachable (C14_Witness).
C14_CheckThenInsert ==
    [][\A p \in Slots :
          /\ (calls[p].pc = "findOverlap" /\ calls'[p].pc = "findCycle")
             => ~OwnOverlap(calls[p].userId, calls[p].startDate, calls[p].endDate)
          /\ calls[p].pc = "insert"
             => (calls'[p].pc = "insert"
                 \/ \E e \in store' \ store :
                        /\ e.userId = calls[p].userId
                        /\ e.start = CallStart(p)
                        /\ e.end = CallEnd(p))]_vars

\* Two creates of one user passed the overlap check before either inserted:
\* the table holds two overlapping entries of that user.
C14_Witness ==
    \E e1, e2 \in store :
        /\ e1 # e2
        /\ e1.userId = e2.userId
        /\ Overlap(e1.start, e1.end, e2.start, e2.end)

(* -------------------------------- C15 --------------------------------- *)

\* C15: with the cycle check and the insert as separate steps, a create with
\* a delegate passes the check only while no entry of the delegate
\* redirecting to the caller overlaps its window, and its insert then adds
\* its redirect whatever has been inserted since; overlapping entries A->B
\* and B->A are reachable (C15_Witness).
C15_CycleCheckThenInsert ==
    [][\A p \in Slots :
          /\ (calls[p].pc = "findCycle" /\ calls'[p].pc = "insert"
                 /\ calls[p].toUserId # NoUser)
             => ~ \E w \in Redirects(calls[p].toUserId, calls[p].userId) :
                      Overlap(w.start, w.end, CallStart(p), CallEnd(p))
          /\ (calls[p].pc = "insert" /\ calls[p].toUserId # NoUser)
             => (calls'[p].pc = "insert"
                 \/ \E e \in store' \ store :
                        /\ e.userId = calls[p].userId
                        /\ e.toUserId = calls[p].toUserId
                        /\ e.start = CallStart(p)
                        /\ e.end = CallEnd(p))]_vars

\* Creates of two users, each naming the other, passed the cycle check
\* before either inserted: the table holds overlapping entries redirecting
\* to each other's owner.
C15_Witness ==
    \E e1, e2 \in store :
        /\ e1.userId # e2.userId
        /\ e1.toUserId = e2.userId
        /\ e2.toUserId = e1.userId
        /\ Overlap(e1.start, e1.end, e2.start, e2.end)

(* -------------------------------- C16 --------------------------------- *)

\* C16: under every interleaving of the steps of creates and deletes, an
\* entry leaves the table only in the delete step of a request whose caller
\* is the entry's owner and whose uid is the entry's uuid.
C16_OnlyOwnerDeletes ==
    [][\A e \in store \ store' :
          \E p \in Slots :
              /\ calls[p].pc = "delete"
              /\ calls'[p].pc = "idle"
              /\ calls[p].uid = e.uuid
              /\ calls[p].userId = e.userId]_vars

\* Two deletes of one entry passed the ownership check; one has removed the
\* entry and the other is about to delete by the same uuid, while an entry
\* of the other user is in the table.
C16_Witness ==
    \E p \in Slots :
        /\ calls[p].pc = "delete"
        /\ \A e \in store : e.uuid # calls[p].uid
        /\ \E e \in store : e.userId # calls[p].userId

(* -------------------------------- C20 --------------------------------- *)

C20_TouchingWitness ==
    /\ probe.applied
    /\ ~probe.normalized
    /\ probe.existing[2] = probe.window[1]
    /\ ~probe.selfOverlap
    /\ probe.cycle

=============================================================================
